---- MODULE Spec2Model ----
(***************************************************************************)
(* Tabular Q-learning agent of smolrl (src/src/smolrl/agents/q_learning.py) *)
(* as a state machine: the driver constructs a QLearningAgent and then      *)
(* calls update, choose_action, reset and the read accessors in any order.  *)
(*                                                                          *)
(* Floating-point values are modelled exactly: a finite value is an integer *)
(* count of 1/Unit, and NaN and the two infinities are values of their own  *)
(* with IEEE-754 arithmetic.  The hyper-parameters are dyadic (0, 1/2, 1)   *)
(* and at most MaxUpdates updates happen between two resets, so every       *)
(* finite result is a multiple of 1/Unit and no rounding takes place.       *)
(***************************************************************************)
EXTENDS Integers, Sequences, FiniteSets, TLC

\* ---------------------------------------------------------------- bounds
NStates == 2
NActions == 2
MaxUpdates == 2

Unit == 4 ^ MaxUpdates
RngMod == NActions

States == 0 .. (NStates - 1)
Actions == 0 .. (NActions - 1)
RngStates == 0 .. (RngMod - 1)

\* ------------------------------------------------------- float64 values
Fin(v) == [k |-> "fin", v |-> v]
NaN == [k |-> "nan", v |-> 0]
PosInf == [k |-> "inf", v |-> 1]
NegInf == [k |-> "inf", v |-> -1]

Zero == Fin(0)
Half == Fin(Unit \div 2)
One == Fin(Unit)

IsNaN(x) == x.k = "nan"
IsFinite(x) == x.k = "fin"

Sign(x) == IF x.v > 0 THEN 1 ELSE IF x.v < 0 THEN -1 ELSE 0

FNeg(x) == [k |-> x.k, v |-> -x.v]

FAdd(x, y) ==
    IF IsNaN(x) \/ IsNaN(y) THEN NaN
    ELSE IF x.k = "inf" /\ y.k = "inf" THEN (IF x.v = y.v THEN x ELSE NaN)
    ELSE IF x.k = "inf" THEN x
    ELSE IF y.k = "inf" THEN y
    ELSE Fin(x.v + y.v)

FSub(x, y) == FAdd(x, FNeg(y))

FMul(x, y) ==
    IF IsNaN(x) \/ IsNaN(y) THEN NaN
    ELSE IF x.k = "inf" \/ y.k = "inf"
         THEN (IF Sign(x) * Sign(y) = 0 THEN NaN
               ELSE [k |-> "inf", v |-> Sign(x) * Sign(y)])
    ELSE Fin((x.v * y.v) \div Unit)

\* x == y of two floats: NaN equals nothing, itself included
FEq(x, y) == ~IsNaN(x) /\ ~IsNaN(y) /\ x = y

\* x < y of two floats
FLt(x, y) ==
    /\ ~IsNaN(x)
    /\ ~IsNaN(y)
    /\ x # y
    /\ \/ x = NegInf
       \/ y = PosInf
       \/ (IsFinite(x) /\ IsFinite(y) /\ x.v < y.v)

\* np.max of a row: NaN if any entry is NaN, else the greatest entry
FMax(qs) ==
    IF \E a \in DOMAIN qs : IsNaN(qs[a]) THEN NaN
    ELSE CHOOSE x \in {qs[a] : a \in DOMAIN qs} :
             \A a \in DOMAIN qs : ~FLt(x, qs[a])

\* -------------------------------------------------------- DiscreteQFunc
\* np.empty((state_size, action_size)): uninitialised memory, here NaN
ZerosTableEmpty == [s \in States |-> [a \in Actions |-> NaN]]

\* np.zeros((state_size, action_size))
ZerosTable == [s \in States |-> [a \in Actions |-> Zero]]

\* numpy integer indexing of an axis of length n: -n..-1 count from the end;
\* the result is the position, or -1 for IndexError
NormIdx(i, n) ==
    IF 0 <= i /\ i < n THEN i
    ELSE IF (0 - n) <= i /\ i < 0 THEN i + n
    ELSE -1

\* self._qtable[state, :]
get_qs_for_actions(t, s) == t[s]

\* np.max(self._qtable[state, :])
max_q_prime(t, s) == FMax(t[s])

\* self._qtable[state, action]
get_q_value(t, s, a) == t[s][a]

\* self._qtable[state, action] = q_update
QFuncUpdate(t, q_update, s, a) == [t EXCEPT ![s][a] = q_update]

\* reset that forgets to clear the array
QFuncResetNoop(heap, ref) == [heap |-> heap, ref |-> ref]

\* self._qtable = np.zeros(...): a new array object instead of fill(0)
QFuncResetRealloc(heap, ref) == [heap |-> Append(heap, ZerosTable), ref |-> Len(heap) + 1]

\* self._qtable.fill(0): the array is zeroed in place, the attribute keeps it
QFuncReset(heap, ref) == [heap |-> [heap EXCEPT ![ref] = ZerosTable], ref |-> ref]

\* the target bootstrapped from the row of state instead of new_state
calc_q_update_same_state(t, lr, g, s, a, reward, new_state) ==
    LET delta == FSub(FAdd(reward, FMul(g, max_q_prime(t, s))), get_q_value(t, s, a))
    IN  FAdd(get_q_value(t, s, a), FMul(lr, delta))

\* -------------------------------------------------------------- Learner
calc_q_update(t, lr, g, s, a, reward, new_state) ==
    LET delta == FSub(FAdd(reward, FMul(g, max_q_prime(t, new_state))),
                      get_q_value(t, s, a))
    IN  FAdd(get_q_value(t, s, a), FMul(lr, delta))

\* ------------------------------------------------------- EpsilonGreedy
\* the generators: a state in RngStates, each draw reads it and steps it
RngStep(g) == (g + 1) % RngMod

\* rng.uniform(0, 1): a value in [0, 1)
Uniform(g) == Fin(g * (Unit \div RngMod))

\* explor_exploit_tradeoff <= self.epsilon
ExploresLe(u, eps) == FLt(u, eps) \/ FEq(u, eps)

\* explor_exploit_tradeoff > self.epsilon
ExploresFlipped(u, eps) == FLt(eps, u)

\* explor_exploit_tradeoff < self.epsilon
Explores(u, eps) == FLt(u, eps)

\* Discrete.sample() from the space's own generator
SpaceSample(sr) == sr % NActions

\* np.where(qs == max)[0]: the maximising indices, ascending
MaxIds(qs) ==
    LET S == {a \in DOMAIN qs : FEq(qs[a], FMax(qs))}
    IN  CHOOSE f \in [1 .. Cardinality(S) -> S] :
            \A i, j \in 1 .. Cardinality(S) : i < j => f[i] < f[j]

\* max_ids[0], what np.argmax returns
ChoiceFirst(ids, g) == ids[1]

\* rng.choice(max_ids)
Choice(ids, g) == ids[(g % Len(ids)) + 1]

\* ---------------------------------------------------------------- state
VARIABLES
    pc,             \* "new" before QLearningAgent(...), then "ready" or "failed"
    obs_space,      \* kind of the environment's observation space
    action_space,   \* kind of the environment's action space
    np_random,      \* state of the action space's own generator (Space.sample)
    learning_rate,  \* Learner.learning_rate
    gamma,          \* Learner.gamma
    epsilon,        \* EpsilonGreedy.epsilon
    rng,            \* state of EpsilonGreedy.rng
    refs,           \* identities of the agent's learner, explorer and qfunc objects
    qfunc,          \* class of Learner.qfunc
    arrays,         \* the ndarray objects: array identity -> contents
    _qtable,        \* DiscreteQFunc._qtable: the identity of its array (0: none)
    _qfunc,         \* ContinuousQFunc._qfunc: the deque
    held,           \* array identity the driver got from get_q_func() (0: none)
    fresh,          \* table of a reference agent constructed at the last reset
                    \* (or at construction) and given the same update calls
    nUpd,           \* successful updates since construction or the last reset
    twin,           \* a second EpsilonGreedy over the same learner, when twin.on
    last            \* the last call: its name, arguments, result and error

vars == <<pc, obs_space, action_space, np_random, learning_rate, gamma, epsilon,
          rng, refs, qfunc, arrays, _qtable, _qfunc, held, fresh, nUpd, twin, last>>

\* values the driver passes
ObsSpaces == {"Discrete", "Box", "MultiBinary"}
ActionSpaces == {"Discrete", "Box"}
LearningRates == {Half}
Gammas == {Half}
Epsilons == {Zero, Half, One}
Rewards == {One, FNeg(One), NaN, PosInf}
\* integer arguments on both sides of a discrete space 0 .. n-1
IdxArgs(n) == (0 - n - 1) .. n

NoTwin == [on |-> FALSE, rng |-> 0, np_random |-> 0, ret |-> <<>>, err |-> "ok"]
NewTwin(seed, sr) == [on |-> TRUE, rng |-> seed, np_random |-> sr, ret |-> <<>>, err |-> "ok"]

NoRefs == [learner |-> 0, explorer |-> 0, qfunc |-> 0]

Init ==
    /\ pc = "new"
    /\ obs_space \in ObsSpaces
    /\ action_space \in ActionSpaces
    /\ np_random \in RngStates
    /\ learning_rate = Zero
    /\ gamma = Zero
    /\ epsilon = Zero
    /\ rng = 0
    /\ refs = NoRefs
    /\ qfunc = "none"
    /\ arrays = <<>>
    /\ _qtable = 0
    /\ _qfunc = <<>>
    /\ held = 0
    /\ fresh = ZerosTable
    /\ nUpd = 0
    /\ twin = NoTwin
    /\ last = [op |-> "none", err |-> "ok"]

\* the value table of the discrete agent
Table == arrays[_qtable]

\* ------------------------------------------------ QLearningAgent.__init__
\* Learner.__post_init__: the class chosen for the observation space
QFuncCls(obs) ==
    IF obs = "Box" THEN "ContinuousQFunc"
    ELSE IF obs = "Discrete" THEN "DiscreteQFunc"
    ELSE "none"

\* the exception the construction ends with
ConstructErr(obs, act) ==
    IF QFuncCls(obs) = "none" THEN "NotImplementedError"
    ELSE IF QFuncCls(obs) = "DiscreteQFunc" /\ act # "Discrete" THEN "AttributeError"
    ELSE "ok"

Construct(lr, g, eps, seed, tw) ==
    /\ pc = "new"
    /\ LET err == ConstructErr(obs_space, action_space)
       IN  /\ last' = [op |-> "construct", err |-> err]
           /\ IF err # "ok"
              THEN /\ pc' = "failed"
                   /\ UNCHANGED <<learning_rate, gamma, epsilon, rng, refs, qfunc,
                                  arrays, _qtable, twin>>
              ELSE /\ pc' = "ready"
                   /\ learning_rate' = lr
                   /\ gamma' = g
                   /\ epsilon' = eps
                   /\ rng' = seed
                   /\ refs' = [learner |-> 1, explorer |-> 2, qfunc |-> 3]
                   /\ qfunc' = QFuncCls(obs_space)
                   /\ IF QFuncCls(obs_space) = "DiscreteQFunc"
                      THEN arrays' = <<ZerosTable>> /\ _qtable' = 1
                      ELSE UNCHANGED <<arrays, _qtable>>
                   /\ twin' = tw
    /\ UNCHANGED <<obs_space, action_space, np_random, _qfunc, held, fresh, nUpd>>

\* ------------------------------------------------- QLearningAgent.update
\* the exception of calc_q_update / update on these arguments
UpdateErr(s, a, new_state) ==
    IF qfunc = "ContinuousQFunc" THEN "NotImplementedError"
    ELSE IF NormIdx(new_state, NStates) = -1 THEN "IndexError"
    ELSE IF NormIdx(s, NStates) = -1 \/ NormIdx(a, NActions) = -1 THEN "IndexError"
    ELSE "ok"

\* the table after update(s, a, reward, new_state), indices in numpy's range
AgentUpdate(t, s, a, reward, new_state) ==
    LET is == NormIdx(s, NStates)
        ia == NormIdx(a, NActions)
        q_update == calc_q_update(t, learning_rate, gamma, is, ia, reward,
                                  NormIdx(new_state, NStates))
    IN  QFuncUpdate(t, q_update, is, ia)

Update(s, a, reward, new_state) ==
    /\ pc = "ready"
    /\ nUpd < MaxUpdates
    /\ LET err == UpdateErr(s, a, new_state)
       IN  /\ last' = [op |-> "update", s |-> s, a |-> a, r |-> reward,
                       s2 |-> new_state, err |-> err]
           /\ IF err = "ok"
              THEN /\ arrays' = [arrays EXCEPT
                                    ![_qtable] = AgentUpdate(@, s, a, reward, new_state)]
                   /\ fresh' = AgentUpdate(fresh, s, a, reward, new_state)
                   /\ nUpd' = nUpd + 1
              ELSE UNCHANGED <<arrays, fresh, nUpd>>
    /\ UNCHANGED <<pc, obs_space, action_space, np_random, learning_rate, gamma,
                   epsilon, rng, refs, qfunc, _qtable, _qfunc, held, twin>>

\* -------------------------------------------------- QLearningAgent.reset
Reset ==
    /\ pc = "ready"
    /\ last' = [op |-> "reset", err |-> "ok",
                 dirty |-> (qfunc = "DiscreteQFunc" /\ Table # ZerosTable)]
    /\ IF qfunc = "DiscreteQFunc"
       THEN /\ arrays' = QFuncReset(arrays, _qtable).heap
            /\ _qtable' = QFuncReset(arrays, _qtable).ref
            /\ UNCHANGED _qfunc
       ELSE /\ _qfunc' = <<>>
            /\ UNCHANGED <<arrays, _qtable>>
    /\ fresh' = ZerosTable
    /\ nUpd' = 0
    /\ UNCHANGED <<pc, obs_space, action_space, np_random, learning_rate, gamma,
                   epsilon, rng, refs, qfunc, held, twin>>

\* ---------------------------------------------------- Learner.get_q_func
GetQFunc ==
    /\ pc = "ready"
    /\ IF qfunc = "DiscreteQFunc"
       THEN held' = _qtable /\ last' = [op |-> "get", err |-> "ok"]
       ELSE UNCHANGED held /\ last' = [op |-> "get", err |-> "NotImplementedError"]
    /\ UNCHANGED <<pc, obs_space, action_space, np_random, learning_rate, gamma,
                   epsilon, rng, refs, qfunc, arrays, _qtable, _qfunc, fresh, nUpd,
                   twin>>

\* ------------------------------------------ EpsilonGreedy.choose_action
\* the exploitation branch, g the generator's state after the first draw
Exploit(s, g) ==
    IF qfunc = "ContinuousQFunc"
    THEN [ret |-> <<>>, err |-> "NotImplementedError", rng |-> g]
    ELSE IF NormIdx(s, NStates) = -1
    THEN [ret |-> <<>>, err |-> "IndexError", rng |-> g]
    ELSE LET max_ids == MaxIds(get_qs_for_actions(Table, NormIdx(s, NStates)))
         IN  IF Len(max_ids) = 0
             THEN [ret |-> <<>>, err |-> "ValueError", rng |-> g]
             ELSE [ret |-> <<Choice(max_ids, g)>>, err |-> "ok", rng |-> RngStep(g)]

\* self.action_space.sample()
Sample(sr) == IF action_space = "Discrete" THEN SpaceSample(sr) ELSE "point"

\* choose_action(s) of an explorer whose generator is in state g, over an
\* action space whose generator is in state sr
choose_action(s, g, sr) ==
    IF Explores(Uniform(g), epsilon)
    THEN [branch |-> "explore", ret |-> <<Sample(sr)>>, err |-> "ok",
          read |-> FALSE, rng |-> RngStep(g), np_random |-> RngStep(sr)]
    ELSE [branch |-> "exploit", ret |-> Exploit(s, RngStep(g)).ret,
          err |-> Exploit(s, RngStep(g)).err, read |-> TRUE,
          rng |-> Exploit(s, RngStep(g)).rng, np_random |-> sr]

CallRecord(s, c) ==
    [op |-> "choose_action", s |-> s, branch |-> c.branch, ret |-> c.ret,
     err |-> c.err, read |-> c.read]

ChooseAction(s) ==
    /\ pc = "ready"
    /\ LET c == choose_action(s, rng, np_random)
       IN  /\ rng' = c.rng
           /\ np_random' = c.np_random
           /\ last' = CallRecord(s, c)
    /\ UNCHANGED <<pc, obs_space, action_space, learning_rate, gamma, epsilon, refs,
                   qfunc, arrays, _qtable, _qfunc, held, fresh, nUpd, twin>>

\* two explorers over the same learner, each with its own action-space
\* object, choose for the same state one after the other
ChooseBoth(s) ==
    /\ pc = "ready"
    /\ twin.on
    /\ LET c == choose_action(s, rng, np_random)
           d == choose_action(s, twin.rng, twin.np_random)
       IN  /\ rng' = c.rng
           /\ np_random' = c.np_random
           /\ last' = CallRecord(s, c)
           /\ twin' = [on |-> TRUE, rng |-> d.rng, np_random |-> d.np_random,
                       ret |-> d.ret, err |-> d.err]
    /\ UNCHANGED <<pc, obs_space, action_space, learning_rate, gamma, epsilon, refs,
                   qfunc, arrays, _qtable, _qfunc, held, fresh, nUpd>>

\* ------------------------------------------- the read accessors, called
\* by the driver through the learner
ReadErr(s, a) ==
    IF qfunc = "ContinuousQFunc" THEN "NotImplementedError"
    ELSE IF NormIdx(s, NStates) = -1 \/ NormIdx(a, NActions) = -1 THEN "IndexError"
    ELSE "ok"

Read(op, s, a, value) ==
    /\ pc = "ready"
    /\ last' = [op |-> op, s |-> s, a |-> a, err |-> ReadErr(s, a),
                ret |-> IF ReadErr(s, a) = "ok" THEN <<value>> ELSE <<>>]
    /\ UNCHANGED <<pc, obs_space, action_space, np_random, learning_rate, gamma,
                   epsilon, rng, refs, qfunc, arrays, _qtable, _qfunc, held, fresh,
                   nUpd, twin>>

GetQValue(s, a) ==
    Read("get_q_value", s, a,
         IF ReadErr(s, a) = "ok"
         THEN get_q_value(Table, NormIdx(s, NStates), NormIdx(a, NActions))
         ELSE Zero)

MaxQPrime(s) ==
    Read("max_q_prime", s, 0,
         IF ReadErr(s, 0) = "ok" THEN max_q_prime(Table, NormIdx(s, NStates)) ELSE Zero)

GetQsForActions(s) ==
    Read("get_qs_for_actions", s, 0,
         IF ReadErr(s, 0) = "ok"
         THEN get_qs_for_actions(Table, NormIdx(s, NStates))
         ELSE Zero)

Next ==
    \/ \E lr \in LearningRates, g \in Gammas, eps \in Epsilons, seed \in RngStates :
           Construct(lr, g, eps, seed, NoTwin)
    \/ \E s \in States, a \in Actions, r \in Rewards, s2 \in States :
           Update(s, a, r, s2)
    \/ Reset
    \/ GetQFunc
    \/ \E s \in States : ChooseAction(s)

Spec == Init /\ [][Next]_vars

\* the action space seeded by the driver: action_space.seed(0)
InitSeeded == Init /\ np_random = 0

\* the learner alone: a driver that never asks the explorer
NextLearn ==
    \/ \E lr \in LearningRates, g \in Gammas :
           Construct(lr, g, Zero, 0, NoTwin)
    \/ \E s \in States, a \in Actions, r \in Rewards, s2 \in States :
           Update(s, a, r, s2)
    \/ Reset

SpecLearn == InitSeeded /\ [][NextLearn]_vars

\* the training loop on a ring environment (state s is followed by s + 1),
\* purely greedy or purely exploring, with a reward of 1 or NaN
RingRewards == {One, NaN}
RingEpsilons == {Zero, One}

NextRing ==
    \/ \E lr \in LearningRates, g \in Gammas, eps \in RingEpsilons :
           Construct(lr, g, eps, 0, NoTwin)
    \/ \E s \in States, a \in Actions, r \in RingRewards :
           Update(s, a, r, (s + 1) % NStates)
    \/ Reset
    \/ GetQFunc
    \/ \E s \in States : ChooseAction(s)

SpecRing == InitSeeded /\ [][NextRing]_vars

\* the same driver passing any integer as an index
NextIdx ==
    \/ \E lr \in LearningRates, g \in Gammas :
           Construct(lr, g, Zero, 0, NoTwin)
    \/ \E s \in IdxArgs(NStates), a \in IdxArgs(NActions), s2 \in IdxArgs(NStates) :
           Update(s, a, One, s2)
    \/ Reset
    \/ \E s \in IdxArgs(NStates), a \in IdxArgs(NActions) : GetQValue(s, a)
    \/ \E s \in IdxArgs(NStates) : MaxQPrime(s)
    \/ \E s \in IdxArgs(NStates) : GetQsForActions(s)

SpecIdx == Init /\ [][NextIdx]_vars

\* two explorers built from the same seed
NextTwin ==
    \/ \E lr \in LearningRates, g \in Gammas, eps \in Epsilons,
          seed \in RngStates, sr \in RngStates :
           Construct(lr, g, eps, seed, NewTwin(seed, sr))
    \/ \E s \in States, a \in Actions, r \in Rewards, s2 \in States :
           Update(s, a, r, s2)
    \/ Reset
    \/ \E s \in States : ChooseBoth(s)

SpecTwin == Init /\ [][NextTwin]_vars

\* =================================================================== claims
AllZero == [s \in 0 .. (NStates - 1) |-> [a \in 0 .. (NActions - 1) |-> Fin(0)]]
Discrete == pc = "ready" /\ qfunc = "DiscreteQFunc"
HasShape(t) == DOMAIN t = States /\ \A s \in States : DOMAIN t[s] = Actions
AllFinite(t) == \A s \in DOMAIN t : \A a \in DOMAIN t[s] : IsFinite(t[s][a])
Maximizers(qs) == {a \in Actions : FEq(qs[a], FMax(qs))}
HasNaN(qs) == \E a \in Actions : IsNaN(qs[a])
InDeclared(s, a) == s \in States /\ a \in Actions

\* C1: update(s, a, r, s2) with in-range arguments on a discrete agent succeeds
\* and changes the table at (s, a) only, to
\* old[s][a] + learning_rate * (r + gamma * max(old[s2]) - old[s][a]),
\* every term read from the table as it was before the call (s2 = s included).
C1_UpdateRule ==
    [][(Discrete /\ last'.op = "update" /\ InDeclared(last'.s, last'.a)
           /\ last'.s2 \in States)
       => \A s \in {last'.s}, a \in {last'.a}, r \in {last'.r}, s2 \in {last'.s2},
             old \in {arrays[_qtable]} :
              LET target == FAdd(r, FMul(gamma, FMax(old[s2])))
                  new == FAdd(old[s][a], FMul(learning_rate, FSub(target, old[s][a])))
              IN  /\ last'.err = "ok"
                  /\ arrays'[_qtable'] =
                         [x \in States |-> [y \in Actions |->
                             IF x = s /\ y = a THEN new ELSE old[x][y]]]]_vars

\* a second update of the same entry with new_state = state: 1/2, then 7/8
C1_Witness ==
    /\ Discrete
    /\ last.op = "update"
    /\ last.err = "ok"
    /\ last.s = last.s2
    /\ nUpd = 2
    /\ Table[last.s][last.a] = Fin((7 * Unit) \div 8)

\* C2: after reset() the table is all zero with its shape unchanged, as after
\* construction, and from then on it equals the table of a freshly constructed
\* agent given the same update calls.
C2_ResetIsFresh ==
    Discrete =>
        /\ HasShape(Table)
        /\ last.op = "reset" => Table = AllZero
        /\ Table = fresh

\* a reset of a table that updates had made non-zero
C2_Witness == Discrete /\ last.op = "reset" /\ last.dirty /\ Table = AllZero

\* C3 as stated: with epsilon = 0 every choose_action(s) exploits and returns an
\* action whose value equals the maximum of row s, the argmax when it is
\* unique, and leaves the table unchanged.
C3_Original ==
    [][(Discrete /\ epsilon = Zero /\ last'.op = "choose_action" /\ last'.s \in States)
       => /\ last'.branch = "exploit"
          /\ last'.err = "ok"
          /\ FEq(Table[last'.s][last'.ret[1]], FMax(Table[last'.s]))
          /\ Cardinality(Maximizers(Table[last'.s])) = 1
                => last'.ret[1] \in Maximizers(Table[last'.s])
          /\ arrays' = arrays]_vars

\* C3 amended: with epsilon = 0 every choose_action(s) exploits and leaves the
\* table unchanged; when row s holds no NaN it returns an action whose value
\* equals the maximum of row s (the argmax when it is unique); when row s holds
\* a NaN the call raises ValueError and returns nothing.
C3_Exploit ==
    [][(Discrete /\ epsilon = Zero /\ last'.op = "choose_action" /\ last'.s \in States)
       => /\ last'.branch = "exploit"
          /\ arrays' = arrays
          /\ IF HasNaN(Table[last'.s])
             THEN last'.err = "ValueError" /\ last'.ret = <<>>
             ELSE /\ last'.err = "ok"
                  /\ FEq(Table[last'.s][last'.ret[1]], FMax(Table[last'.s]))
                  /\ Cardinality(Maximizers(Table[last'.s])) = 1
                        => last'.ret[1] \in Maximizers(Table[last'.s])]_vars

\* the greedy choice on a row with a unique, non-zero maximum
C3_Witness ==
    /\ Discrete
    /\ epsilon = Zero
    /\ last.op = "choose_action"
    /\ last.err = "ok"
    /\ Table # AllZero
    /\ Maximizers(Table[last.s]) = {last.ret[1]}

\* C4: in the exploitation branch the actions that can be returned (over the
\* states of the generator) are exactly the indices whose value equals the row
\* maximum, and the action returned is one of them; on an all-zero table that
\* is every action.
C4_TieBreak ==
    Discrete =>
        /\ \A s \in States :
               {Exploit(s, g).ret : g \in RngStates} \ {<<>>}
                   = {<<a>> : a \in Maximizers(Table[s])}
        /\ (last.op = "choose_action" /\ last.branch = "exploit" /\ last.err = "ok")
               => last.ret[1] \in Maximizers(Table[last.s])
        /\ Table = AllZero
               => \A s \in States :
                      {Exploit(s, g).ret : g \in RngStates} = {<<a>> : a \in Actions}

\* a tie at a non-zero value that was not resolved to the lowest index
C4_Witness ==
    /\ Discrete
    /\ last.op = "choose_action"
    /\ last.branch = "exploit"
    /\ last.err = "ok"
    /\ Cardinality(Maximizers(Table[last.s])) >= 2
    /\ FMax(Table[last.s]) # Zero
    /\ \E a \in Maximizers(Table[last.s]) : a < last.ret[1]

\* C5 as stated: a read or a write with a state index outside 0..n-1 or an
\* action index outside 0..m-1 fails with IndexError, returns nothing and
\* leaves the table unchanged.
C5_Original ==
    [][(Discrete
           /\ last'.op \in {"get_q_value", "max_q_prime", "get_qs_for_actions", "update"}
           /\ \/ ~InDeclared(last'.s, last'.a)
              \/ (last'.op = "update" /\ last'.s2 \notin States))
       => /\ last'.err = "IndexError"
          /\ arrays' = arrays]_vars

\* C6 as stated: construction with a Box observation or action space succeeds,
\* and on the continuous agent update and an exploiting choose_action fail
\* with NotImplementedError and change nothing.
C6_Original ==
    [][/\ (last'.op = "construct" /\ obs_space \in {"Discrete", "Box"}
              /\ (obs_space = "Box" \/ action_space = "Box"))
          => last'.err = "ok"
       /\ (qfunc = "ContinuousQFunc" /\ last'.op = "update")
          => (last'.err = "NotImplementedError" /\ arrays' = arrays)
       /\ (qfunc = "ContinuousQFunc" /\ last'.op = "choose_action"
              /\ last'.branch = "exploit")
          => (last'.err = "NotImplementedError" /\ arrays' = arrays)]_vars

\* C7 as stated: two explorers with the same seed, the same epsilon and the
\* same table return the same action (or fail alike) for the same states.
C7_Original ==
    (twin.on /\ last.op = "choose_action")
        => (last.ret = twin.ret /\ last.err = twin.err)

\* C8: with epsilon = 1 every choose_action(s) explores: it returns an action of
\* the action space, the actions it can return (over the states of the
\* generators) are the whole action space, and it neither reads nor changes
\* the table.
C8_Explore ==
    [][(pc = "ready" /\ epsilon = One /\ last'.op = "choose_action")
       => /\ last'.branch = "explore"
          /\ last'.err = "ok"
          /\ ~last'.read
          /\ arrays' = arrays
          /\ action_space = "Discrete"
                => /\ last'.ret[1] \in Actions
                   /\ {choose_action(last'.s, g, sr).ret : g \in RngStates, sr \in RngStates}
                          = {<<a>> : a \in Actions}]_vars

\* exploring returned an action that is not a maximiser of its row
C8_Witness ==
    /\ Discrete
    /\ epsilon = One
    /\ last.op = "choose_action"
    /\ last.ret[1] \notin Maximizers(Table[last.s])
    /\ ~HasNaN(Table[last.s])

\* C9: reset() leaves epsilon, both generators, learning_rate, gamma and the
\* identities of the learner, explorer, qfunc and table array unchanged; the
\* array is zeroed in place, so a reference held from before sees all zeros.
C9_ResetFrame ==
    [][(pc = "ready" /\ last'.op = "reset")
       => /\ epsilon' = epsilon
          /\ rng' = rng
          /\ np_random' = np_random
          /\ learning_rate' = learning_rate
          /\ gamma' = gamma
          /\ refs' = refs
          /\ qfunc' = qfunc
          /\ _qtable' = _qtable
          /\ DOMAIN arrays' = DOMAIN arrays
          /\ held # 0 => arrays'[held] = AllZero]_vars

\* a reset of a non-zero table while the driver holds the array
C9_Witness ==
    /\ Discrete
    /\ last.op = "reset"
    /\ last.dirty
    /\ held # 0
    /\ arrays[held] = AllZero
    /\ rng # 0

\* C10 as stated: the table always has NStates x NActions entries, each finite,
\* whatever rewards update is given.
C10_Original == Discrete => (HasShape(Table) /\ AllFinite(Table))

\* C10 amended: the table always has NStates x NActions entries; it is all
\* finite after construction and after reset, and a call leaves an all-finite
\* table all finite unless it is an update with a NaN or infinite reward.
C10_FiniteRewards ==
    [][(pc' = "ready" /\ qfunc' = "DiscreteQFunc")
       => /\ HasShape(arrays'[_qtable'])
          /\ last'.op \in {"construct", "reset"} => AllFinite(arrays'[_qtable'])
          /\ (pc = "ready" /\ AllFinite(Table)
                /\ (last'.op = "update" => IsFinite(last'.r)))
             => AllFinite(arrays'[_qtable'])]_vars

\* two updates with finite rewards
C10_Witness ==
    /\ Discrete
    /\ last.op = "update"
    /\ last.err = "ok"
    /\ IsFinite(last.r)
    /\ nUpd = 2
    /\ AllFinite(Table)
    /\ Table # AllZero

====
